---- MODULE Spec2Model ----
(***************************************************************************)
(* Model of the WAD2 / BSP texture importer, src/io_import_wad2.py:        *)
(* ImportQuakeWad.execute (lines 81-372) and make_noodles_post (385-478).  *)
(*                                                                         *)
(* Representation.                                                         *)
(*  - A name (lump name, file name, tag) is a sequence of character codes, *)
(*    so that lower(), startswith(), indexing and sorting act as in the    *)
(*    code.  Names are ASCII (decode('ascii') succeeds).                   *)
(*  - A float is kept as its numerator over FloatScale: rgb/255 is rgb,    *)
(*    the literal 1 and the boolean True are FloatScale, 0 and False are 0.*)
(*  - An image is a record [name, size, pixels]; None is NoImage.          *)
(*  - A directory entry carries the fields the decoder reads at its offset *)
(*    [type, dname, hname, w, h, data]: dname the 16-byte directory name,  *)
(*    hname/w/h the miptexture (or status bar) header, data the bytes that *)
(*    follow (index bytes, or the 768 palette bytes).                      *)
(*  - nparsed counts the directory entries the batch has declared so far; *)
(*    it only bounds the model (MaxEntries).                               *)
(*  - A raised Python exception leaves execute: pc = "raised", exc names   *)
(*    it, and nothing runs afterwards.                                     *)
(* Two specifications:                                                     *)
(*   Spec      the whole import, one step per file opened and per          *)
(*             directory entry parsed (the loop body is one step);         *)
(*   SpecLump  the parse of one entry, one step per pixel of the           *)
(*             conversion loop.                                            *)
(***************************************************************************)
EXTENDS Integers, Sequences, FiniteSets, TLC

VARIABLES
    option_assets, option_cont, option_luma, option_seq,
    nfiles, fileIdx, file, entryIdx, nparsed,
    pc, exc, last,
    materials, objects, anim_seqs, groups, reports,
    lump, name, seq_name, palette, size, pixels, row, clm,
    pix_rgba, pix_emit

options == <<option_assets, option_cont, option_luma, option_seq>>
batch   == <<nfiles, fileIdx, file, entryIdx, nparsed>>
blender == <<materials, objects, anim_seqs, groups, reports>>
locals  == <<lump, name, seq_name, palette, size, pixels, row, clm,
             pix_rgba, pix_emit>>
vars    == <<options, batch, pc, exc, last, blender, locals>>

-----------------------------------------------------------------------------
(* Bounds of the model.                                                    *)

\* files in one batch (len(self.files))
MaxFiles == 2
\* directory entries of all the files of one batch together
MaxEntries == 3
\* pixels of the index buffer converted step by step in SpecLump
MaxPixels == 4

-----------------------------------------------------------------------------
(* Program constants.                                                      *)

\* rgb/255: floats are numerators over this
FloatScale == 255
\* first fullbright palette index
FullbrightFrom == 224
\* the transparent index of '{' textures
TransparentIndex == 255
\* bytes of a palette lump
PaletteBytes == 768
\* side of the synthetic palette image
PaletteSide == 16

\* '_luma', the default of prefs.emit_suffix
emit_suffix == <<95, 108, 117, 109, 97>>
\* 'CONCHARS'
CONCHARS == <<67, 79, 78, 67, 72, 65, 82, 83>>
\* 'CONBACK'
CONBACK == <<67, 79, 78, 66, 65, 67, 75>>
\* b'WAD2'
SigWAD2 == <<87, 65, 68, 50>>
\* b'BSP2'
SigBSP2 == <<66, 83, 80, 50>>
\* struct.pack('<L', 29)
SigBSP29 == <<29, 0, 0, 0>>
\* a signature that is none of the three (a TGA header)
SigOther == <<0, 0, 2, 0>>
\* type tags b'D', b'B', b'@' and one the code does not know, b'E'
TypeMiptex == <<68>>
TypeStatusBar == <<66>>
TypePalette == <<64>>
TypeOther == <<69>>

quake1palette == <<
    0, 0, 0, 15, 15, 15, 31, 31, 31, 47, 47, 47, 63, 63, 63, 75, 75, 75, 91, 91, 91, 107, 107, 107,
    123, 123, 123, 139, 139, 139, 155, 155, 155, 171, 171, 171, 187, 187, 187, 203, 203, 203, 219, 219, 219, 235, 235, 235,
    15, 11, 7, 23, 15, 11, 31, 23, 11, 39, 27, 15, 47, 35, 19, 55, 43, 23, 63, 47, 23, 75, 55, 27,
    83, 59, 27, 91, 67, 31, 99, 75, 31, 107, 83, 31, 115, 87, 31, 123, 95, 35, 131, 103, 35, 143, 111, 35,
    11, 11, 15, 19, 19, 27, 27, 27, 39, 39, 39, 51, 47, 47, 63, 55, 55, 75, 63, 63, 87, 71, 71, 103,
    79, 79, 115, 91, 91, 127, 99, 99, 139, 107, 107, 151, 115, 115, 163, 123, 123, 175, 131, 131, 187, 139, 139, 203,
    0, 0, 0, 7, 7, 0, 11, 11, 0, 19, 19, 0, 27, 27, 0, 35, 35, 0, 43, 43, 7, 47, 47, 7,
    55, 55, 7, 63, 63, 7, 71, 71, 7, 75, 75, 11, 83, 83, 11, 91, 91, 11, 99, 99, 11, 107, 107, 15,
    7, 0, 0, 15, 0, 0, 23, 0, 0, 31, 0, 0, 39, 0, 0, 47, 0, 0, 55, 0, 0, 63, 0, 0,
    71, 0, 0, 79, 0, 0, 87, 0, 0, 95, 0, 0, 103, 0, 0, 111, 0, 0, 119, 0, 0, 127, 0, 0,
    19, 19, 0, 27, 27, 0, 35, 35, 0, 47, 43, 0, 55, 47, 0, 67, 55, 0, 75, 59, 7, 87, 67, 7,
    95, 71, 7, 107, 75, 11, 119, 83, 15, 131, 87, 19, 139, 91, 19, 151, 95, 27, 163, 99, 31, 175, 103, 35,
    35, 19, 7, 47, 23, 11, 59, 31, 15, 75, 35, 19, 87, 43, 23, 99, 47, 31, 115, 55, 35, 127, 59, 43,
    143, 67, 51, 159, 79, 51, 175, 99, 47, 191, 119, 47, 207, 143, 43, 223, 171, 39, 239, 203, 31, 255, 243, 27,
    11, 7, 0, 27, 19, 0, 43, 35, 15, 55, 43, 19, 71, 51, 27, 83, 55, 35, 99, 63, 43, 111, 71, 51,
    127, 83, 63, 139, 95, 71, 155, 107, 83, 167, 123, 95, 183, 135, 107, 195, 147, 123, 211, 163, 139, 227, 179, 151,
    171, 139, 163, 159, 127, 151, 147, 115, 135, 139, 103, 123, 127, 91, 111, 119, 83, 99, 107, 75, 87, 95, 63, 75,
    87, 55, 67, 75, 47, 55, 67, 39, 47, 55, 31, 35, 43, 23, 27, 35, 19, 19, 23, 11, 11, 15, 7, 7,
    187, 115, 159, 175, 107, 143, 163, 95, 131, 151, 87, 119, 139, 79, 107, 127, 75, 95, 115, 67, 83, 107, 59, 75,
    95, 51, 63, 83, 43, 55, 71, 35, 43, 59, 31, 35, 47, 23, 27, 35, 19, 19, 23, 11, 11, 15, 7, 7,
    219, 195, 187, 203, 179, 167, 191, 163, 155, 175, 151, 139, 163, 135, 123, 151, 123, 111, 135, 111, 95, 123, 99, 83,
    107, 87, 71, 95, 75, 59, 83, 63, 51, 67, 51, 39, 55, 43, 31, 39, 31, 23, 27, 19, 15, 15, 11, 7,
    111, 131, 123, 103, 123, 111, 95, 115, 103, 87, 107, 95, 79, 99, 87, 71, 91, 79, 63, 83, 71, 55, 75, 63,
    47, 67, 55, 43, 59, 47, 35, 51, 39, 31, 43, 31, 23, 35, 23, 15, 27, 19, 11, 19, 11, 7, 11, 7,
    255, 243, 27, 239, 223, 23, 219, 203, 19, 203, 183, 15, 187, 167, 15, 171, 151, 11, 155, 131, 7, 139, 115, 7,
    123, 99, 7, 107, 83, 0, 91, 71, 0, 75, 55, 0, 59, 43, 0, 43, 31, 0, 27, 15, 0, 11, 7, 0,
    0, 0, 255, 11, 11, 239, 19, 19, 223, 27, 27, 207, 35, 35, 191, 43, 43, 175, 47, 47, 159, 47, 47, 143,
    47, 47, 127, 47, 47, 111, 47, 47, 95, 43, 43, 79, 35, 35, 63, 27, 27, 47, 19, 19, 31, 11, 11, 15,
    43, 0, 0, 59, 0, 0, 75, 7, 0, 95, 7, 0, 111, 15, 0, 127, 23, 7, 147, 31, 7, 163, 39, 11,
    183, 51, 15, 195, 75, 27, 207, 99, 43, 219, 127, 59, 227, 151, 79, 231, 171, 95, 239, 191, 119, 247, 211, 139,
    167, 123, 59, 183, 155, 55, 199, 195, 55, 231, 227, 87, 127, 191, 255, 171, 231, 255, 215, 255, 255, 103, 0, 0,
    139, 0, 0, 179, 0, 0, 215, 0, 0, 255, 0, 0, 255, 243, 147, 255, 247, 199, 255, 255, 255, 159, 91, 83
    >>

-----------------------------------------------------------------------------
(* Python string and list operations.                                      *)

Min(S) == CHOOSE x \in S : \A y \in S : x <= y
Max(S) == CHOOSE x \in S : \A y \in S : x >= y

\* str.lower() on ASCII
LowerChar(c) == IF c >= 65 /\ c <= 90 THEN c + 32 ELSE c
Lower(s) == [i \in 1..Len(s) |-> LowerChar(s[i])]

\* field.split(b'\00')[0]
SplitNul(s) ==
    LET zs == {i \in 1..Len(s) : s[i] = 0}
    IN  IF zs = {} THEN s ELSE SubSeq(s, 1, Min(zs) - 1)

StartsWith(s, p) == Len(s) >= Len(p) /\ SubSeq(s, 1, Len(p)) = p
EndsWith(s, p) ==
    Len(s) >= Len(p) /\ SubSeq(s, Len(s) - Len(p) + 1, Len(s)) = p

\* s.rfind(c): 0-based index of the last c, -1 when there is none
RFind(s, c) ==
    LET is == {i \in 1..Len(s) : s[i] = c}
    IN  IF is = {} THEN -1 ELSE Max(is) - 1

\* s[:k] for a 0-based k that may be negative
SliceTo(s, k) ==
    LET stop == IF k < 0 THEN Len(s) + k ELSE k
        n    == IF stop < 0 THEN 0 ELSE IF stop > Len(s) THEN Len(s) ELSE stop
    IN  SubSeq(s, 1, n)

\* s.replace(a, b) for single characters
Replace(s, a, b) == [i \in 1..Len(s) |-> IF s[i] = a THEN b ELSE s[i]]

\* c in '0a' and c in '0123456789' for a single character c
InZeroA(c) == c = 48 \/ c = 97
IsDigit(c) == c >= 48 /\ c <= 57

\* [x] * n
Repeat(q, n) ==
    IF n <= 0 THEN <<>>
    ELSE [i \in 1..(n * Len(q)) |-> q[((i - 1) % Len(q)) + 1]]

\* wad.read(n): at most n bytes, fewer at the end of the file
Read(data, n) == SubSeq(data, 1, IF n < Len(data) THEN n ELSE Len(data))

\* a < b for names, as Python compares str
RECURSIVE StrLess(_, _)
StrLess(a, b) ==
    IF b = <<>> THEN FALSE
    ELSE IF a = <<>> THEN TRUE
    ELSE IF Head(a) /= Head(b) THEN Head(a) < Head(b)
    ELSE StrLess(Tail(a), Tail(b))

\* sorted(frames, key=lambda frame: frame.name): a stable insertion sort
RECURSIVE InsertByName(_, _)
InsertByName(sorted, im) ==
    IF sorted = <<>> THEN <<im>>
    ELSE IF StrLess(im.name, Head(sorted).name)
         THEN <<im>> \o sorted
         ELSE <<Head(sorted)>> \o InsertByName(Tail(sorted), im)

\* mutant of SortedByName: the frames are left in decode order
SortedByName_unsorted(frames) == frames

RECURSIVE SortedByName(_)
SortedByName(frames) ==
    IF frames = <<>> THEN <<>>
    ELSE InsertByName(SortedByName(SubSeq(frames, 1, Len(frames) - 1)),
                      frames[Len(frames)])

-----------------------------------------------------------------------------
(* Images and palettes.                                                    *)

NoImage == [name |-> <<>>, size |-> <<0, 0>>, pixels |-> <<>>]

\* bpy.data.images.new(name, w, h) followed by img.pixels = pix
NewImage(nm, sz, pix) == [name |-> nm, size |-> sz, pixels |-> pix]

\* [rgb/255 for rgb in table]
PalFloat(table) == [i \in 1..Len(table) |-> table[i]]

pal_float == PalFloat(quake1palette)

\* [0,0,0,1]
Black == <<0, 0, 0, FloatScale>>

\* a bool stored in a list of floats
BoolFloat(b) == IF b THEN FloatScale ELSE 0

\* bytearray(range(256))
RangeBytes == [i \in 1..(PaletteSide * PaletteSide) |-> i - 1]

-----------------------------------------------------------------------------
(* Pixel classifier, lines 238-257.  size is <<width, height>>, row and    *)
(* clm are the loop variables, 0-based as in the code.                     *)

\* mutant of Alpha: index 255 is transparent in every texture
Alpha_anyname(pixel, nm) == pixel /= TransparentIndex

\* line 242: alpha = pixel != 255 or name[0] != '{'
Alpha(pixel, nm) == pixel /= TransparentIndex \/ nm[1] /= 123

\* mutant of NotFb: sky and liquid textures are not exempt
NotFb_noexempt(pixel, nm) == pixel < FullbrightFrom

\* lines 243-244: notfb = pixel < 224 or name.startswith(('sky','*'))
NotFb(pixel, nm) ==
    pixel < FullbrightFrom
        \/ StartsWith(nm, <<115, 107, 121>>) \/ StartsWith(nm, <<42>>)

\* mutant of InitSize: the back-fill counts the rows from the top
InitSize_unflipped(sz, r, c) == r * sz[1] + c

\* mutant of InitSize: nothing is filled in before the first glowing pixel
InitSize_zero(sz, r, c) == 0

\* line 255: initsize = (size[1]-row-1)*size[0] + clm
InitSize(sz, r, c) == (sz[2] - r - 1) * sz[1] + c

\* mutant of FullbrightColor: the color buffer is cut out in every mode
FullbrightColor_cut(luma, color, alpha) == Black

\* lines 250-253: the color buffer's quadruple of a fullbright pixel
FullbrightColor(luma, color, alpha) ==
    IF luma THEN Black ELSE color \o <<BoolFloat(alpha)>>

\* mutant of PixelAt: the rows are read from the top while the loop runs
\* from the last row
PixelAt_topdown(sz, px, r, c) == px[(sz[2] - 1 - r) * sz[1] + c + 1]

\* line 240: pixel = pixels[row*size[0] + clm]
PixelAt(sz, px, r, c) == px[r * sz[1] + c + 1]

\* lines 240-257: the body of the inner loop, on the two buffers
PixelStep(nm, pal, luma, sz, px, r, c, rgba, em) ==
    LET pixel == PixelAt(sz, px, r, c)
        color == SubSeq(pal, pixel * 3 + 1, pixel * 3 + 3)
        alpha == Alpha(pixel, nm)
        notfb == NotFb(pixel, nm)
    IN  IF notfb \/ ~alpha
        THEN [rgba |-> rgba \o color \o <<BoolFloat(alpha)>>,
              emit |-> IF em /= <<>> THEN em \o Black ELSE em]
        ELSE [rgba |-> rgba \o FullbrightColor(luma, color, alpha),
              emit |-> (IF em = <<>>
                        THEN Repeat(Black, InitSize(sz, r, c))
                        ELSE em) \o color \o <<BoolFloat(alpha)>>]

\* lines 239-257: the inner loop "for clm in range(size[0])" from column c.
\* (The test on s makes TLC compute the step before it descends.)
RECURSIVE ConvertRow(_, _, _, _, _, _, _, _)
ConvertRow(nm, pal, luma, sz, px, r, c, acc) ==
    IF c >= sz[1] THEN acc
    ELSE LET s == PixelStep(nm, pal, luma, sz, px, r, c, acc.rgba, acc.emit)
         IN  IF Len(s.rgba) >= 0
             THEN ConvertRow(nm, pal, luma, sz, px, r, c + 1, s)
             ELSE s

\* lines 238-257: the outer loop "for row in reversed(range(size[1]))" from
\* row r down to row 0
RECURSIVE ConvertRows(_, _, _, _, _, _, _)
ConvertRows(nm, pal, luma, sz, px, r, acc) ==
    IF r < 0 THEN acc
    ELSE LET s == ConvertRow(nm, pal, luma, sz, px, r, 0, acc)
         IN  IF Len(s.rgba) >= 0
             THEN ConvertRows(nm, pal, luma, sz, px, r - 1, s)
             ELSE s

\* lines 219-220 and 238-257: both buffers of one lump
Convert(nm, pal, luma, sz, px) ==
    ConvertRows(nm, pal, luma, sz, px, sz[2] - 1,
                [rgba |-> <<>>, emit |-> <<>>])

-----------------------------------------------------------------------------
(* Maps keyed by name: bpy.data.materials, bpy.data.objects, anim_seqs.    *)

EmptyMap == [k \in {} |-> <<>>]

Put(m, k, v) == [x \in (DOMAIN m) \cup {k} |-> IF x = k THEN v ELSE m[x]]

-----------------------------------------------------------------------------
(* Inputs: files and directory entries.                                    *)

\* file.name of the i-th file of the batch (0-based): a distinct stem and
\* the extension of its kind
FileName(i, fmt) ==
    <<97 + i>> \o (IF fmt = "WAD2" THEN <<46, 119, 97, 100>>
                   ELSE IF fmt = "BSP" THEN <<46, 98, 115, 112>>
                   ELSE <<46, 116, 103, 97>>)

\* self.directory.split('\\')[-2] for the directory 'C:\q\textures\'
DirTag == <<116, 101, 120, 116, 117, 114, 101, 115>>

\* What the file browser can hand over and the disk can hold: sig the first
\* 4 bytes, truncated a header or directory shorter than declared,
\* numentries the directory's entry count, depth the color depth the image
\* loader reports, luma_file whether the glow sibling exists and loads.
FileInputs ==
    [sig : {SigWAD2, SigBSP2, SigBSP29}, truncated : BOOLEAN,
     numentries : 0..MaxEntries, depth : {0}, luma_file : {FALSE}]
    \cup
    [sig : {SigOther}, truncated : {FALSE}, numentries : {1},
     depth : {0, 24}, luma_file : BOOLEAN]

\* the file at hand: its name, its first 4 bytes sig (line 102), the kind
\* they select, cont_name
\* and loose_texture as the code computes them, the count of its entries,
\* and for a loaded image its depth and whether a glow sibling loads
NoFile == [name |-> <<>>, format |-> "none", loose_texture |-> FALSE,
           cont_name |-> <<>>, numentries |-> 0, depth |-> 0,
           luma_file |-> FALSE, sig |-> <<>>]

\* A directory entry with what is read at its offset: wadentry[0] the
\* offset, wadentry[3] the type, wadentry[6] the declared name, and the
\* header name, width, height and bytes found in the file there.
Entry(t, dn, hn, w, h, d) ==
    [offset |-> 0, type |-> t, dname |-> dn, hname |-> hn, w |-> w,
     h |-> h, data |-> d]

\* the entry e of a directory that points at offset off
AtOffset(e, off) == [e EXCEPT !.offset = off]

\* where the i-th lump of a file starts
OffsetOfLump(i) == 1000 + 64 * i

\* line 111: the 30 header fields of a BSP; field 4 is the offset of the
\* texture directory
BspHeader == [i \in 1..30 |-> IF i = 5 THEN 124 ELSE 0]

NoEntry == Entry(<<>>, <<>>, <<>>, 0, 0, <<>>)

\* line 127: the pseudo entry of a loose image, [0, 0, 0, 0, 0, 0, b'']
LooseEntry == Entry(<<0>>, <<>>, <<>>, 0, 0, <<>>)

\* lines 103, 110, 118: the container kind the signature selects
Format(sig) ==
    IF sig = SigWAD2 THEN "WAD2"
    ELSE IF sig = SigBSP2 \/ sig = SigBSP29 THEN "BSP"
    ELSE "image"

\* mutant of ZeroDepth: an image of no depth is taken as a texture
ZeroDepth_never(d) == FALSE

\* line 121: if img24.depth == 0
ZeroDepth(d) == d = 0

\* a custom palette: the default one with every byte inverted
CustomPaletteData == [i \in 1..PaletteBytes |-> 255 - quake1palette[i]]

\* miptexture lumps in the order they lie in a file: header name, 1x1
\* index buffer
MipBodies ==
    << Entry(TypeMiptex, <<87, 65, 76, 76, 49>>, <<87, 65, 76, 76, 49>>,
            1, 1, <<0>>),                                      \* "WALL1"
      Entry(TypeMiptex, <<119, 97, 108, 108, 49>>, <<119, 97, 108, 108, 49>>,
            1, 1, <<0>>),                                      \* "wall1"
      Entry(TypeMiptex, <<43, 48, 120>>, <<43, 48, 120>>, 1, 1, <<0>>),
                                                               \* "+0x"
      Entry(TypeMiptex, <<43, 49, 120>>, <<43, 49, 120>>, 1, 1, <<0>>),
                                                               \* "+1x"
      Entry(TypeMiptex, <<43, 50, 88>>, <<43, 50, 88>>, 1, 1, <<230>>),
                                                               \* "+2X", glows
      Entry(TypeMiptex, <<43, 98, 120>>, <<43, 98, 120>>, 1, 1, <<0>>),
                                                               \* "+bx"
      Entry(TypeMiptex, <<>>, <<>>, 1, 1, <<0>>),              \* ""
      Entry(TypeMiptex, <<43>>, <<43>>, 1, 1, <<0>>) >>        \* "+"

\* the miptexture lumps, each at its offset
MipLumps ==
    {AtOffset(MipBodies[i], OffsetOfLump(i)) : i \in 1..Len(MipBodies)}

\* the other lumps of a WAD2 directory
WadLumps ==
    MipLumps \cup
    { AtOffset(Entry(TypePalette, <<80, 65, 76>>, <<>>, 0, 0,
                     CustomPaletteData),
               OffsetOfLump(Len(MipBodies) + 1)),              \* "PAL"
      AtOffset(Entry(TypeOther, <<106, 117, 110, 107>>, <<>>, 0, 0, <<>>),
               OffsetOfLump(Len(MipBodies) + 2)) }             \* "junk"

\* the miptexture that lies at offset off of a file, none elsewhere
BodyAt(off) ==
    IF \E e \in MipLumps : e.offset = off
    THEN CHOOSE e \in MipLumps : e.offset = off
    ELSE NoEntry

\* the relative offsets a BSP texture directory can hold: those of the
\* miptextures, counted from the directory
BspRelOffsets ==
    {OffsetOfLump(i) - BspHeader[5] : i \in 1..Len(MipBodies)}

\* mutant of AbsOffset: the directory's offset is not added
AbsOffset_relative(rel, diroffset) == rel

\* line 116: offset = struct.unpack('<l',wad.read(4))[0] + diroffset
AbsOffset(rel, diroffset) == rel + diroffset

\* line 117: a BSP entry is [offset, 0, 0, b'D', 0, 0, b''], here with the
\* miptexture header found at the offset
BspEntry(rel, diroffset) ==
    LET off == AbsOffset(rel, diroffset)
        b   == BodyAt(off)
    IN  AtOffset(Entry(TypeMiptex, <<>>, b.hname, b.w, b.h, b.data), off)

\* the entries the directory of file f can hold
EntriesOf(f) ==
    IF f.loose_texture THEN {LooseEntry}
    ELSE IF f.format = "WAD2" THEN WadLumps
    ELSE {BspEntry(rel, BspHeader[5]) : rel \in BspRelOffsets}

-----------------------------------------------------------------------------
(* Lump decoder, lines 148-190.                                            *)

Decoded(k, nm, sz, px, pal) ==
    [kind |-> k, name |-> nm, size |-> sz, pixels |-> px, palette |-> pal]

\* mutant of LoopPalette: the palette of the previous entry stays active
LoopPalette_kept(prev) == prev

\* line 151: palette = pal_float, at the top of every iteration
LoopPalette(prev) == pal_float

\* mutant of Dispatch: a lump of any other type is read as a status bar
\* picture
Dispatch_anytype(e, f, prev) ==
    LET dname == SplitNul(e.dname)
        pal   == LoopPalette(prev)
    IN  IF f.loose_texture
        THEN Decoded("loose",
                     Replace(SliceTo(f.name, RFind(f.name, 46)), 35, 42),
                     <<0, 0>>, <<>>, pal)
        ELSE IF dname = CONCHARS
        THEN Decoded("indexed", dname, <<128, 128>>,
                     Read(e.data, 128 * 128), pal)
        ELSE IF dname = CONBACK
        THEN Decoded("indexed", dname, <<320, 200>>,
                     Read(e.data, 320 * 200), pal)
        ELSE IF e.type = TypeMiptex
        THEN Decoded("indexed", SplitNul(e.hname), <<e.w, e.h>>,
                     Read(e.data, e.w * e.h), pal)
        ELSE IF e.type = TypeStatusBar
        THEN Decoded("indexed", dname, <<e.w, e.h>>,
                     Read(e.data, e.w * e.h), pal)
        ELSE IF e.type = TypePalette
        THEN IF Len(Read(e.data, PaletteBytes)) < PaletteBytes
             THEN Decoded("struct.error", dname, <<PaletteSide, PaletteSide>>,
                          RangeBytes, pal)
             ELSE Decoded("indexed", dname, <<PaletteSide, PaletteSide>>,
                          RangeBytes, PalFloat(Read(e.data, PaletteBytes)))
        ELSE Decoded("indexed", dname, <<e.w, e.h>>,
                     Read(e.data, e.w * e.h), pal)

\* mutant of Dispatch: the type of the lump is looked at before its name
Dispatch_typefirst(e, f, prev) ==
    LET dname == SplitNul(e.dname)
        pal   == LoopPalette(prev)
    IN  IF f.loose_texture
        THEN Decoded("loose",
                     Replace(SliceTo(f.name, RFind(f.name, 46)), 35, 42),
                     <<0, 0>>, <<>>, pal)
        ELSE IF e.type = TypeMiptex
        THEN Decoded("indexed", SplitNul(e.hname), <<e.w, e.h>>,
                     Read(e.data, e.w * e.h), pal)
        ELSE IF e.type = TypeStatusBar
        THEN Decoded("indexed", dname, <<e.w, e.h>>,
                     Read(e.data, e.w * e.h), pal)
        ELSE IF e.type = TypePalette
        THEN IF Len(Read(e.data, PaletteBytes)) < PaletteBytes
             THEN Decoded("struct.error", dname, <<PaletteSide, PaletteSide>>,
                          RangeBytes, pal)
             ELSE Decoded("indexed", dname, <<PaletteSide, PaletteSide>>,
                          RangeBytes, PalFloat(Read(e.data, PaletteBytes)))
        ELSE IF dname = CONCHARS
        THEN Decoded("indexed", dname, <<128, 128>>,
                     Read(e.data, 128 * 128), pal)
        ELSE IF dname = CONBACK
        THEN Decoded("indexed", dname, <<320, 200>>,
                     Read(e.data, 320 * 200), pal)
        ELSE Decoded("unrecognized", dname, <<0, 0>>, <<>>, pal)

\* lines 148-190.  kind is "loose" (the loaded image is used), "indexed"
\* (size, pixels and palette are set), "unrecognized" (warning, continue)
\* or "struct.error" (the 768 palette bytes are not all there)
Dispatch(e, f, prev) ==
    LET dname == SplitNul(e.dname)
        pal   == LoopPalette(prev)
    IN  IF f.loose_texture
        THEN Decoded("loose",
                     Replace(SliceTo(f.name, RFind(f.name, 46)), 35, 42),
                     <<0, 0>>, <<>>, pal)
        ELSE IF dname = CONCHARS
        THEN Decoded("indexed", dname, <<128, 128>>,
                     Read(e.data, 128 * 128), pal)
        ELSE IF dname = CONBACK
        THEN Decoded("indexed", dname, <<320, 200>>,
                     Read(e.data, 320 * 200), pal)
        ELSE IF e.type = TypeMiptex
        THEN Decoded("indexed", SplitNul(e.hname), <<e.w, e.h>>,
                     Read(e.data, e.w * e.h), pal)
        ELSE IF e.type = TypeStatusBar
        THEN Decoded("indexed", dname, <<e.w, e.h>>,
                     Read(e.data, e.w * e.h), pal)
        ELSE IF e.type = TypePalette
        THEN IF Len(Read(e.data, PaletteBytes)) < PaletteBytes
             THEN Decoded("struct.error", dname, <<PaletteSide, PaletteSide>>,
                          RangeBytes, pal)
             ELSE Decoded("indexed", dname, <<PaletteSide, PaletteSide>>,
                          RangeBytes, PalFloat(Read(e.data, PaletteBytes)))
        ELSE Decoded("unrecognized", dname, <<0, 0>>, <<>>, pal)

-----------------------------------------------------------------------------
(* Sequence and duplicate resolver, lines 192-217.                         *)

\* mutant of NormName: the name is registered as it is spelled in the lump
NormName_ascased(nm) == nm

\* line 193: name = name.lower()
NormName(nm) == Lower(nm)

\* line 194: ename = name + emit_suffix
EName(nm) == nm \o emit_suffix

\* mutant of IsFrame: only a digit other than 0 marks a frame
IsFrame_digits(nm) == nm[1] = 43 /\ IsDigit(nm[2]) /\ nm[2] /= 48

\* lines 200 and 267: name[0] == '+' and name[1] not in '0a', for a name
\* of two characters or more
IsFrame(nm) == nm[1] = 43 /\ ~InZeroA(nm[2])

\* lines 200 and 267 raise IndexError on '' (name[0]) and on '+' (name[1])
FrameTestRaises(nm) == nm = <<>> \/ (nm[1] = 43 /\ Len(nm) < 2)

\* mutant of SeqName: every frame is filed under the digit-style key
SeqName_digit(nm) == <<43, 48>> \o SubSeq(nm, 3, Len(nm))

\* lines 203-204
SeqName(nm) ==
    (IF IsDigit(nm[2]) THEN <<43, 48>> ELSE <<43, 97>>)
        \o SubSeq(nm, 3, Len(nm))

\* mutant of SkipFrames: frames are kept whatever the option says
SkipFrames_never(seq) == FALSE

\* line 201: if not self.option_seq
SkipFrames(seq) == ~seq

\* mutant of AlreadyStashed: no stashed frame is recognized
AlreadyStashed_never(seqs, sq, nm) == FALSE

\* lines 205-210: already_stashed
AlreadyStashed(seqs, sq, nm) ==
    sq \in DOMAIN seqs /\ \E i \in 1..Len(seqs[sq]) : seqs[sq][i].name = nm

\* ob.data.materials.append(mat) when containers are on (lines 196-197,
\* 280-281)
Contain(objs, cont, nm) ==
    IF option_cont THEN Put(objs, cont, Append(objs[cont], nm)) ELSE objs

\* lines 195-217, for the normalized name nm of an entry of file f: what
\* the resolver decides, and the registry and containers it leaves
Resolve(nm, f, mats, objs, seqs) ==
    LET keep(o, x) == [outcome |-> o, exc |-> x, seq_name |-> <<>>,
                       materials |-> mats, objects |-> objs]
    IN  IF nm \in DOMAIN mats
        THEN IF mats[nm].asset
             THEN [outcome |-> "duplicate", exc |-> "none",
                   seq_name |-> <<>>,
                   materials |->
                       [mats EXCEPT ![nm].tags = Append(@, f.cont_name)],
                   objects |-> Contain(objs, f.cont_name, nm)]
             ELSE [outcome |-> "raised", exc |-> "AttributeError",
                   seq_name |-> <<>>, materials |-> mats,
                   objects |-> Contain(objs, f.cont_name, nm)]
        ELSE IF FrameTestRaises(nm) THEN keep("raised", "IndexError")
        ELSE IF IsFrame(nm) /\ SkipFrames(option_seq)
        THEN keep("frame_skip", "none")
        ELSE IF IsFrame(nm) /\ AlreadyStashed(seqs, SeqName(nm), nm)
        THEN [keep("frame_discard", "none") EXCEPT !.seq_name = SeqName(nm)]
        ELSE IF f.loose_texture /\ EndsWith(nm, emit_suffix)
        THEN [keep("loose_emit_skip", "none") EXCEPT
                  !.seq_name = IF IsFrame(nm) THEN SeqName(nm) ELSE <<>>]
        ELSE [keep("convert", "none") EXCEPT
                  !.seq_name = IF IsFrame(nm) THEN SeqName(nm) ELSE <<>>]

-----------------------------------------------------------------------------
(* Stash or material, lines 258-358.                                       *)

\* lines 278-358: what the registry keeps of a new material
Material(im, em, cont) ==
    [img |-> im, emit |-> em, asset |-> option_assets,
     tags |-> IF option_assets THEN <<cont>> ELSE <<>>]

\* lines 266-276: the frame is appended to its group's lists; KeyError when
\* the group exists without an emission list and the frame has one
Stash(seqs, sq, im, em, hasEmit) ==
    LET ek == sq \o emit_suffix
    IN  IF sq \in DOMAIN seqs
        THEN LET s1 == [seqs EXCEPT ![sq] = Append(@, im)]
             IN  IF ~hasEmit THEN [exc |-> "none", anim_seqs |-> s1]
                 ELSE IF ek \in DOMAIN s1
                 THEN [exc |-> "none",
                       anim_seqs |-> [s1 EXCEPT ![ek] = Append(@, em)]]
                 ELSE [exc |-> "KeyError", anim_seqs |-> s1]
        ELSE LET s1 == Put(seqs, sq, <<im>>)
             IN  [exc |-> "none",
                  anim_seqs |-> IF hasEmit THEN Put(s1, ek, <<em>>) ELSE s1]

\* mutant of Store: a stashed frame goes on to become a material as well
Store_fallthrough(nm, sq, sz, rgba, emitbuf, f, mats, objs, seqs) ==
    LET hasEmit == emitbuf /= <<>>
        im == NewImage(nm, sz, rgba)
        em == IF hasEmit THEN NewImage(EName(nm), sz, emitbuf) ELSE NoImage
        st == IF IsFrame(nm) THEN Stash(seqs, sq, im, em, hasEmit)
              ELSE [exc |-> "none", anim_seqs |-> seqs]
    IN  [outcome |-> IF st.exc = "none" THEN "material" ELSE "raised",
         exc |-> st.exc,
         materials |-> Put(mats, nm, Material(im, em, f.cont_name)),
         objects |-> Contain(objs, f.cont_name, nm),
         anim_seqs |-> st.anim_seqs]

\* lines 258-358 for the name nm, its buffers, and the sequence key sq the
\* resolver computed: the images are made, then the frame is stashed or the
\* material is created
Store(nm, sq, sz, rgba, emitbuf, f, mats, objs, seqs) ==
    LET hasEmit == emitbuf /= <<>>
        im == NewImage(nm, sz, rgba)
        em == IF hasEmit THEN NewImage(EName(nm), sz, emitbuf) ELSE NoImage
    IN  IF IsFrame(nm)
        THEN LET st == Stash(seqs, sq, im, em, hasEmit)
             IN  [outcome |-> IF st.exc = "none" THEN "stashed" ELSE "raised",
                  exc |-> st.exc, materials |-> mats, objects |-> objs,
                  anim_seqs |-> st.anim_seqs]
        ELSE [outcome |-> "material", exc |-> "none",
              materials |-> Put(mats, nm, Material(im, em, f.cont_name)),
              objects |-> Contain(objs, f.cont_name, nm),
              anim_seqs |-> seqs]

\* lines 221-236: a loose image is used as loaded; 'blah' marks that its
\* glow sibling was loaded
LooseBuffers(f) ==
    [rgba |-> <<>>, emit |-> IF f.luma_file THEN <<-1>> ELSE <<>>]

-----------------------------------------------------------------------------
(* make_noodles_post, lines 385-478: the animation groups.                 *)

\* lines 458-471: the emission image of frame im, None (black) without one
EmitOf(seqs, ek, im) ==
    IF ek \notin DOMAIN seqs THEN NoImage
    ELSE LET hits == {i \in 1..Len(seqs[ek]) :
                          seqs[ek][i].name = im.name \o emit_suffix}
         IN  IF hits = {} THEN NoImage ELSE seqs[ek][Min(hits)]

\* mutant of MakeNoodlesPost: a group is built of every key, base or not
MakeNoodlesPost_orphans(seqs, mats) ==
    [k \in DOMAIN seqs |->
        [frames |-> SortedByName(seqs[k]), emits |-> <<>>]]

\* lines 392-478: one group per key of anim_seqs that names a material; its
\* frames are the material's own image and then the stashed ones by name
MakeNoodlesPost(seqs, mats) ==
    [k \in {q \in DOMAIN seqs : q \in DOMAIN mats} |->
        LET ek == k \o emit_suffix
            sorted == SortedByName(seqs[k])
            has_emit_frames == mats[k].emit /= NoImage \/ ek \in DOMAIN seqs
        IN  [frames |-> <<mats[k].img>> \o sorted,
             emits |-> IF has_emit_frames
                       THEN <<mats[k].emit>> \o
                            [i \in 1..Len(sorted) |->
                                EmitOf(seqs, ek, sorted[i])]
                       ELSE <<>>]]

\* lines 397-399: a material whose Base Color is already fed by a mix node
\* was set up by an earlier import and is left as it is
SetUpOnce(old, new) ==
    [k \in DOMAIN old \cup DOMAIN new |->
        IF k \in DOMAIN old THEN old[k] ELSE new[k]]

-----------------------------------------------------------------------------
(* The import: Spec.                                                       *)

Init ==
    /\ option_assets \in BOOLEAN
    /\ option_cont \in BOOLEAN
    /\ option_luma = FALSE
    /\ option_seq \in BOOLEAN
    /\ nfiles \in 1..MaxFiles
    /\ fileIdx = 0
    /\ file = NoFile
    /\ entryIdx = 0
    /\ nparsed = 0
    /\ pc = "files"
    /\ exc = "none"
    /\ last = "none"
    /\ materials = EmptyMap
    /\ objects = EmptyMap
    /\ anim_seqs = EmptyMap
    /\ groups = EmptyMap
    /\ reports = <<>>
    /\ lump = NoEntry
    /\ name = <<>>
    /\ seq_name = <<>>
    /\ palette = pal_float
    /\ size = <<0, 0>>
    /\ pixels = <<>>
    /\ row = -1
    /\ clm = 0
    /\ pix_rgba = <<>>
    /\ pix_emit = <<>>

\* lines 95-144: the next file is opened, its kind decided and its
\* directory read
OpenFile ==
    /\ pc = "files"
    /\ fileIdx < nfiles
    /\ \E i \in {x \in FileInputs : nparsed + x.numentries <= MaxEntries} :
        LET fname == FileName(fileIdx, Format(i.sig))
            loose == Format(i.sig) = "image"
            cont  == IF loose THEN DirTag ELSE fname
            f     == [name |-> fname, format |-> Format(i.sig),
                      loose_texture |-> loose,
                      cont_name |-> cont, numentries |-> i.numentries,
                      depth |-> i.depth, luma_file |-> i.luma_file,
                      sig |-> i.sig]
        IN  IF i.truncated
            THEN \* struct.unpack on a short read raises struct.error
                 /\ pc' = "raised"
                 /\ exc' = "struct.error"
                 /\ last' = "raised"
                 /\ file' = [f EXCEPT !.numentries = 0, !.cont_name = <<>>]
                 /\ UNCHANGED <<fileIdx, entryIdx, nparsed, objects, reports>>
            ELSE IF loose /\ ZeroDepth(i.depth)
            THEN \* lines 121-124: warning, continue; loose_texture is
                 \* still False and cont_name is not computed
                 /\ reports' = Append(reports, <<"Skipped", fname>>)
                 /\ fileIdx' = fileIdx + 1
                 /\ file' = [f EXCEPT !.loose_texture = FALSE,
                                      !.cont_name = <<>>, !.numentries = 0,
                                      !.luma_file = FALSE]
                 /\ last' = "skipped_file"
                 /\ UNCHANGED <<pc, exc, entryIdx, nparsed, objects>>
            ELSE /\ file' = f
                 /\ entryIdx' = 0
                 /\ nparsed' = nparsed + i.numentries
                 /\ objects' = IF option_cont /\ cont \notin DOMAIN objects
                               THEN Put(objects, cont, <<>>)
                               ELSE objects
                 /\ pc' = "lumps"
                 /\ last' = "opened"
                 /\ UNCHANGED <<exc, fileIdx, reports>>
    /\ UNCHANGED <<options, nfiles, materials, anim_seqs, groups, locals>>

\* Convert on every input the entries of Spec can give it.  Convert is a
\* function of its arguments and TLC computes a constant once, so the step
\* below looks the buffers up here instead of converting the 256 pixels of
\* a palette image anew in every state.
ConvertInputs ==
    { <<NormName(d.name), pal, luma, d.size, d.pixels>> :
        d \in { x \in { Dispatch(e, [NoFile EXCEPT !.format = "WAD2"],
                                 pal_float) : e \in WadLumps } :
                    x.kind = "indexed" /\ x.name /= <<>> },
        pal \in {pal_float, PalFloat(CustomPaletteData)},
        luma \in BOOLEAN }

ConvertTable ==
    [k \in ConvertInputs |-> Convert(k[1], k[2], k[3], k[4], k[5])]

Converted(nm, pal, luma, sz, px) ==
    IF <<nm, pal, luma, sz, px>> \in ConvertInputs
    THEN ConvertTable[<<nm, pal, luma, sz, px>>]
    ELSE Convert(nm, pal, luma, sz, px)

\* lines 147-367 for the entry e: one iteration of "for wadentry in
\* wadentries", as the values it leaves
Parsed(e, f, prev, mats, objs, seqs, reps) ==
    LET d  == Dispatch(e, f, prev)
        nm == NormName(d.name)
        r  == Resolve(nm, f, mats, objs, seqs)
        b  == IF d.kind = "loose" THEN LooseBuffers(f)
              ELSE Converted(nm, d.palette, option_luma, d.size, d.pixels)
        s  == Store(nm, r.seq_name, d.size, b.rgba, b.emit, f,
                    r.materials, r.objects, seqs)
        out(o, x, n, sq, rgba, em, m, ob, sqs, rp) ==
            [outcome |-> o, exc |-> x, name |-> n, seq_name |-> sq,
             palette |-> d.palette, size |-> d.size, pixels |-> d.pixels,
             pix_rgba |-> rgba, pix_emit |-> em,
             materials |-> m, objects |-> ob, anim_seqs |-> sqs,
             reports |-> rp]
    IN  IF d.kind = "unrecognized"
        THEN out("unrecognized", "none", d.name, <<>>, <<>>, <<>>, mats, objs,
                 seqs, Append(reps, <<"Unrecognized lump", d.name>>))
        ELSE IF d.kind = "struct.error"
        THEN out("raised", "struct.error", d.name, <<>>, <<>>, <<>>, mats,
                 objs, seqs, reps)
        ELSE IF r.outcome /= "convert"
        THEN out(r.outcome, r.exc, nm, r.seq_name, <<>>, <<>>, r.materials,
                 r.objects, seqs, reps)
        ELSE out(s.outcome, s.exc, nm, r.seq_name, b.rgba, b.emit,
                 s.materials, s.objects, s.anim_seqs, reps)

\* lines 147-367: the next entry of the open file is parsed.  Of the locals
\* the step keeps the loop variable and palette; every other one is assigned
\* in an iteration before it is read there, and SpecLump below follows them
\* one by one.
ParseTexture ==
    /\ pc = "lumps"
    /\ entryIdx < file.numentries
    /\ \E e \in EntriesOf(file) :
        \E p \in {Parsed(e, file, palette, materials, objects, anim_seqs,
                        reports)} :
            /\ lump' = e
            /\ palette' = p.palette
            /\ materials' = p.materials
            /\ objects' = p.objects
            /\ anim_seqs' = p.anim_seqs
            /\ reports' = p.reports
            /\ last' = p.outcome
            /\ exc' = p.exc
            /\ pc' = IF p.exc = "none" THEN "lumps" ELSE "raised"
    /\ entryIdx' = entryIdx + 1
    /\ UNCHANGED <<options, nfiles, fileIdx, file, nparsed, groups,
                   name, seq_name, size, pixels, row, clm, pix_rgba,
                   pix_emit>>

\* the end of "with open(...) as wad": the file is closed and the loop over
\* the files goes on.  file, the entry counter and the loop variable are
\* bound again before they are next read, and are cleared here.
EndFile ==
    /\ pc = "lumps"
    /\ entryIdx = file.numentries
    /\ fileIdx' = fileIdx + 1
    /\ file' = NoFile
    /\ entryIdx' = 0
    /\ lump' = NoEntry
    /\ pc' = "files"
    /\ last' = "closed"
    /\ UNCHANGED <<options, nfiles, nparsed, exc, blender, name, seq_name,
                   palette, size, pixels, row, clm, pix_rgba, pix_emit>>

\* lines 369-372: after the last file the stashed frames are attached
Finish ==
    /\ pc = "files"
    /\ fileIdx = nfiles
    /\ groups' = IF option_seq
                 THEN SetUpOnce(groups, MakeNoodlesPost(anim_seqs, materials))
                 ELSE groups
    /\ pc' = "done"
    /\ last' = "finished"
    /\ UNCHANGED <<options, batch, exc, materials, objects, anim_seqs,
                   reports, locals>>

Next == OpenFile \/ ParseTexture \/ EndFile \/ Finish

Spec == Init /\ [][Next]_vars

-----------------------------------------------------------------------------
(* The parse of one entry, pixel by pixel: SpecLump.                       *)
(* It starts where OpenFile leaves the first file of a batch, a WAD2 file  *)
(* of one entry, and follows lines 147-367 for that entry with the locals  *)
(* as variables: ReadLump is lines 148-220, ConvertPixel one iteration of  *)
(* the inner loop of lines 238-257, StoreTexture lines 258-367.            *)

\* the pixel values the index buffers are drawn from: an ordinary color,
\* the last ordinary one, the first fullbright one, and the index that is
\* transparent in '{' textures
PixelValues == {0, FullbrightFrom - 1, FullbrightFrom, TransparentIndex}

\* header names: "metal1", "{fence", "sky1", "*water", "TEST", "+1frame"
LumpNames ==
    { <<109, 101, 116, 97, 108, 49>>, <<123, 102, 101, 110, 99, 101>>,
      <<115, 107, 121, 49>>, <<42, 119, 97, 116, 101, 114>>,
      <<84, 69, 83, 84>>, <<43, 49, 102, 114, 97, 109, 101>> }

\* width and height of the index buffers
LumpSizes ==
    {s \in (1..MaxPixels) \X (1..MaxPixels) : s[1] * s[2] <= MaxPixels}

\* the entries SpecLump parses: every miptexture of these names, sizes and
\* pixels, and a palette lump "PAL"
LumpInputs ==
    UNION { { Entry(TypeMiptex, n, n, s[1], s[2], px) :
                n \in LumpNames, px \in [1..(s[1] * s[2]) -> PixelValues] } :
            s \in LumpSizes }
    \cup { Entry(TypePalette, <<80, 65, 76>>, <<>>, 0, 0, CustomPaletteData) }

\* the file of SpecLump: 'a.wad', one entry
LumpFile ==
    [name |-> FileName(0, "WAD2"), format |-> "WAD2",
     loose_texture |-> FALSE, cont_name |-> FileName(0, "WAD2"),
     numentries |-> 1, depth |-> 0, luma_file |-> FALSE,
     sig |-> SigWAD2]

InitLump ==
    /\ option_assets = TRUE
    /\ option_cont = TRUE
    /\ option_luma \in BOOLEAN
    /\ option_seq = TRUE
    /\ nfiles = 1
    /\ fileIdx = 0
    /\ file = LumpFile
    /\ entryIdx = 0
    /\ nparsed = 1
    /\ pc = "lumps"
    /\ exc = "none"
    /\ last = "opened"
    /\ materials = EmptyMap
    /\ objects = Put(EmptyMap, LumpFile.cont_name, <<>>)
    /\ anim_seqs = EmptyMap
    /\ groups = EmptyMap
    /\ reports = <<>>
    /\ lump \in LumpInputs
    /\ name = <<>>
    /\ seq_name = <<>>
    /\ palette = pal_float
    /\ size = <<0, 0>>
    /\ pixels = <<>>
    /\ row = -1
    /\ clm = 0
    /\ pix_rgba = <<>>
    /\ pix_emit = <<>>

\* lines 148-220: the entry is decoded and resolved; the loops of line 238
\* start at the last row
ReadLump ==
    /\ pc = "lumps"
    /\ entryIdx < file.numentries
    /\ \E d \in {Dispatch(lump, file, palette)} :
        /\ palette' = d.palette
        /\ size' = d.size
        /\ pixels' = d.pixels
        /\ row' = d.size[2] - 1
        /\ IF d.kind = "unrecognized"
           THEN /\ reports' = Append(reports,
                                     <<"Unrecognized lump", d.name>>)
                /\ name' = d.name
                /\ last' = "unrecognized"
                /\ pc' = "lumps"
                /\ entryIdx' = entryIdx + 1
                /\ UNCHANGED <<seq_name, materials, objects, exc>>
           ELSE IF d.kind = "struct.error"
           THEN /\ name' = d.name
                /\ last' = "raised"
                /\ exc' = "struct.error"
                /\ pc' = "raised"
                /\ entryIdx' = entryIdx + 1
                /\ UNCHANGED <<seq_name, materials, objects, reports>>
           ELSE \E r \in {Resolve(NormName(d.name), file, materials,
                                  objects, anim_seqs)} :
                /\ name' = NormName(d.name)
                /\ seq_name' = r.seq_name
                /\ materials' = r.materials
                /\ objects' = r.objects
                /\ last' = r.outcome
                /\ exc' = r.exc
                /\ pc' = IF r.outcome = "convert" THEN "pixels"
                         ELSE IF r.exc = "none" THEN "lumps" ELSE "raised"
                /\ entryIdx' = IF r.outcome = "convert" THEN entryIdx
                               ELSE entryIdx + 1
                /\ UNCHANGED reports
    /\ clm' = 0
    /\ pix_rgba' = <<>>
    /\ pix_emit' = <<>>
    /\ UNCHANGED <<options, nfiles, fileIdx, file, nparsed, anim_seqs,
                   groups, lump>>

\* lines 240-257 for the pixel at (row, clm), then the loops advance
ConvertPixel ==
    /\ pc = "pixels"
    /\ row >= 0
    /\ \E s \in {PixelStep(name, palette, option_luma, size, pixels, row,
                           clm, pix_rgba, pix_emit)} :
        /\ pix_rgba' = s.rgba
        /\ pix_emit' = s.emit
    /\ clm' = IF clm + 1 < size[1] THEN clm + 1 ELSE 0
    /\ row' = IF clm + 1 < size[1] THEN row ELSE row - 1
    /\ UNCHANGED <<options, batch, pc, exc, last, blender, lump, name,
                   seq_name, palette, size, pixels>>

\* lines 258-367, the loops being over: the images are made and the frame
\* is stashed or the material created
StoreTexture ==
    /\ pc = "pixels"
    /\ row < 0
    /\ \E s \in {Store(name, seq_name, size, pix_rgba, pix_emit, file,
                       materials, objects, anim_seqs)} :
        /\ materials' = s.materials
        /\ objects' = s.objects
        /\ anim_seqs' = s.anim_seqs
        /\ last' = s.outcome
        /\ exc' = s.exc
        /\ pc' = IF s.exc = "none" THEN "lumps" ELSE "raised"
    /\ entryIdx' = entryIdx + 1
    /\ UNCHANGED <<options, nfiles, fileIdx, file, nparsed, groups, reports,
                   locals>>

NextLump == ReadLump \/ ConvertPixel \/ StoreTexture

SpecLump == InitLump /\ [][NextLump]_vars


-----------------------------------------------------------------------------
(* Properties of the pixel conversion, checked under SpecLump.             *)

\* the p-th quadruple, counted from 0, of a float buffer
Quad(buf, p) == SubSeq(buf, 4 * p + 1, 4 * p + 4)

\* the palette entry v of pal with alpha 1
PaletteQuad(pal, v) ==
    <<pal[3 * v + 1], pal[3 * v + 2], pal[3 * v + 3], FloatScale>>

\* the index stored in the lump for output position p, counted from 0: the
\* output starts with the last row of the lump and keeps the columns' order
SourceIndex(sz, px, p) ==
    px[(sz[2] - 1 - (p \div sz[1])) * sz[1] + (p % sz[1]) + 1]

\* the buffers hold the pixels of the entry being converted or just stored
BuffersLive == pc = "pixels" \/ last \in {"material", "stashed"}

\* the conversion of the entry is over and its images are made
Stored == pc = "lumps" /\ last \in {"material", "stashed"}

\* the name starts with "sky" or "*"
SkyOrLiquid(nm) == StartsWith(nm, <<115, 107, 121>>) \/ StartsWith(nm, <<42>>)

\* the pixel v of a texture nm is the transparent index of a masked texture
Masked(nm, v) == v = 255 /\ StartsWith(nm, <<123>>)

\* C7: in a texture whose name starts with neither "sky" nor "*", every
\* converted pixel of index v >= 224 that is not a transparent index has the
\* quadruple (palette[v], 1) at its position of the emission buffer, and at
\* the same position of the color buffer the same quadruple when cut-out-luma
\* is disabled, (0,0,0,1) when it is enabled.
C7_FullbrightRule ==
    BuffersLive =>
        \A p \in 0..(Len(pix_rgba) \div 4 - 1) :
            LET v == SourceIndex(size, pixels, p)
            IN  (~SkyOrLiquid(name) /\ v >= 224 /\ ~Masked(name, v)) =>
                    /\ Len(pix_emit) >= 4 * (p + 1)
                    /\ Quad(pix_emit, p) = PaletteQuad(palette, v)
                    /\ Quad(pix_rgba, p) =
                           IF option_luma THEN <<0, 0, 0, FloatScale>>
                           ELSE PaletteQuad(palette, v)

\* "metal1" with pixels of index 224 and 255 is stored with cut-out-luma
\* disabled
C7_Witness ==
    /\ Stored
    /\ name = <<109, 101, 116, 97, 108, 49>>
    /\ ~option_luma
    /\ size = <<2, 2>>
    /\ pixels = <<0, 224, 255, 223>>
    /\ Quad(pix_emit, 0) = PaletteQuad(pal_float, 255)
    /\ Quad(pix_rgba, 0) = Quad(pix_emit, 0)
    /\ Quad(pix_rgba, 3) = PaletteQuad(pal_float, 224)

\* C8: the alpha of a converted pixel in the color buffer is 0 exactly when
\* its index is 255 and the normalized name begins with '{'; it is 1 for
\* index 255 in any other texture and for every other index.
C8_TransparencyRule ==
    BuffersLive =>
        \A p \in 0..(Len(pix_rgba) \div 4 - 1) :
            Quad(pix_rgba, p)[4] =
                IF Masked(name, SourceIndex(size, pixels, p)) THEN 0
                ELSE FloatScale

\* "{fence" is stored with index 255 in its first row only
C8_Witness ==
    /\ Stored
    /\ name = <<123, 102, 101, 110, 99, 101>>
    /\ size = <<1, 2>>
    /\ pixels = <<255, 224>>
    /\ Quad(pix_rgba, 0)[4] = FloatScale
    /\ Quad(pix_rgba, 1)[4] = 0

\* C9: the color image of a stored texture of width w and height h has
\* w*h*4 components, and so has its emission image when there is one,
\* whichever position holds the first fullbright pixel; while the pixels are
\* converted an emission buffer that exists is as long as the color buffer.
C9_BufferSize ==
    /\ pc = "pixels" =>
           /\ Len(pix_rgba) % 4 = 0
           /\ Len(pix_rgba) <= size[1] * size[2] * 4
           /\ pix_emit /= <<>> => Len(pix_emit) = Len(pix_rgba)
    /\ Stored =>
           /\ Len(pix_rgba) = size[1] * size[2] * 4
           /\ pix_emit /= <<>> => Len(pix_emit) = size[1] * size[2] * 4
           /\ \A k \in DOMAIN materials :
                  LET m == materials[k]
                  IN  /\ Len(m.img.pixels) = m.img.size[1] * m.img.size[2] * 4
                      /\ m.img.size = size
                      /\ m.emit /= NoImage =>
                             /\ m.emit.size = size
                             /\ Len(m.emit.pixels) = Len(m.img.pixels)
           /\ \A k \in DOMAIN anim_seqs :
                  \A i \in 1..Len(anim_seqs[k]) :
                      LET im == anim_seqs[k][i]
                      IN  /\ im.size = size
                          /\ Len(im.pixels) = size[1] * size[2] * 4

\* a 1x2 texture is stored whose first fullbright pixel is in the first row
\* of the lump, the last one converted
C9_Witness ==
    /\ Stored
    /\ size = <<1, 2>>
    /\ pixels = <<224, 0>>
    /\ name \in DOMAIN materials
    /\ materials[name].emit /= NoImage
    /\ Len(materials[name].emit.pixels) = 8
    /\ Quad(materials[name].emit.pixels, 0) = <<0, 0, 0, FloatScale>>

\* C10: a WAD2 of one miptexture lump whose pixels are all below 224 gives
\* one image named by the lowercased header name, whose color buffer holds
\* at every position the active palette's entry of the pixel shown there
\* with alpha 1, and no emission buffer; when the name is not a frame's the
\* registry holds that one texture under that name.
C10_OrdinaryMiptex ==
    (Stored /\ lump.type = TypeMiptex
            /\ \A i \in 1..Len(lump.data) : lump.data[i] < 224) =>
        LET key == Lower(SplitNul(lump.hname))
            im  == NewImage(key, <<lump.w, lump.h>>, pix_rgba)
        IN  /\ Len(pix_rgba) = lump.w * lump.h * 4
            /\ \A p \in 0..(lump.w * lump.h - 1) :
                   Quad(pix_rgba, p) =
                       PaletteQuad(pal_float,
                                   SourceIndex(<<lump.w, lump.h>>,
                                               lump.data, p))
            /\ pix_emit = <<>>
            /\ last = "material" =>
                   /\ DOMAIN materials = {key}
                   /\ materials[key].img = im
                   /\ materials[key].emit = NoImage
                   /\ anim_seqs = EmptyMap
            /\ last = "stashed" =>
                   /\ materials = EmptyMap
                   /\ \E k \in DOMAIN anim_seqs :
                          /\ DOMAIN anim_seqs = {k}
                          /\ anim_seqs[k] = <<im>>

\* the lump "TEST" of 2x2 pixels of index 0 is stored as "test"
C10_Witness ==
    /\ Stored
    /\ lump.hname = <<84, 69, 83, 84>>
    /\ lump.data = <<0, 0, 0, 0>>
    /\ <<116, 101, 115, 116>> \in DOMAIN materials
    /\ materials[<<116, 101, 115, 116>>].img.pixels =
           <<0, 0, 0, 255, 0, 0, 0, 255, 0, 0, 0, 255, 0, 0, 0, 255>>
    /\ materials[<<116, 101, 115, 116>>].emit = NoImage

-----------------------------------------------------------------------------
(* Properties of the import, checked under Spec.                           *)

\* the normalized name of the entry in lump, read in file f
NameIn(e, f) == Lower(Dispatch(e, f, pal_float).name)

\* the step parses one more entry of the open file
ParseStep == pc = "lumps" /\ entryIdx' = entryIdx + 1

\* the last step parsed an entry of the open file
JustParsed == pc \in {"lumps", "raised"} /\ entryIdx >= 1

\* the image a step of outcome o stored under name nm in the registry mats
\* or the stash seqs: the material's image, or the frame stashed last under
\* its key
ImageIn(o, nm, mats, seqs) ==
    IF o = "material" THEN mats[nm].img
    ELSE LET frames == seqs[SeqName(nm)] IN frames[Len(frames)]

\* the image the last step stored under name nm
ImageStored(nm) == ImageIn(last, nm, materials, anim_seqs)

\* C1 (amended): a Palette lump's table colors only the 16x16 image made of
\* that lump itself; every other lump of the file, before or after a Palette
\* lump, is converted with the default palette, and so the palette in force
\* after an entry is the custom one exactly when that entry is a Palette lump.
C1_PaletteOnlyForItsOwnLump ==
    (JustParsed /\ pc = "lumps" /\ last /= "unrecognized") =>
        /\ palette = IF lump.type = TypePalette THEN PalFloat(lump.data)
                     ELSE pal_float
        /\ (last \in {"material", "stashed"} /\ lump.type = TypeMiptex) =>
               ImageStored(NameIn(lump, file)).pixels =
                   PaletteQuad(pal_float, lump.data[1])
        /\ (last = "material" /\ lump.type = TypePalette) =>
               LET im == ImageStored(NameIn(lump, file))
               IN  /\ im.size = <<PaletteSide, PaletteSide>>
                   /\ Quad(im.pixels, 0) =
                          PaletteQuad(PalFloat(lump.data),
                                      PaletteSide * (PaletteSide - 1))

\* "wall1" is made of a lump that follows the Palette lump "PAL" in the same
\* WAD2, and its pixel of index 0 has the default palette's color
C1_Witness ==
    /\ pc = "lumps"
    /\ entryIdx = 2
    /\ option_cont
    /\ objects[file.cont_name] =
           <<<<112, 97, 108>>, <<119, 97, 108, 108, 49>>>>
    /\ lump.type = TypeMiptex
    /\ last = "material"
    /\ palette = pal_float
    /\ materials[<<112, 97, 108>>].img.pixels[1] = 255 - quake1palette[721]
    /\ materials[<<119, 97, 108, 108, 49>>].img.pixels = <<0, 0, 0, 255>>

\* C1: lumps are decoded with an order-dependent active palette: the first
\* lump of a file, when it is a miptexture, is converted with the default
\* palette, and a miptexture lump converted directly after a Palette lump of
\* the same file is converted with that lump's custom palette.
C1_PaletteScopeInOrder ==
    [][(ParseStep /\ pc' = "lumps" /\ lump'.type = TypeMiptex
                  /\ last' \in {"material", "stashed"}) =>
           /\ entryIdx = 0 =>
                  /\ palette' = pal_float
                  /\ ImageIn(last', NameIn(lump', file), materials',
                                 anim_seqs').pixels =
                         PaletteQuad(pal_float, lump'.data[1])
           /\ (entryIdx >= 1 /\ lump.type = TypePalette
                             /\ last \in {"material", "duplicate"}) =>
                  /\ palette' = PalFloat(lump.data)
                  /\ ImageIn(last', NameIn(lump', file), materials',
                                 anim_seqs').pixels =
                         PaletteQuad(PalFloat(lump.data), lump'.data[1])
      ]_vars

\* C2: a file whose header or directory read is short aborts only that file:
\* while later files of the batch remain, the short read does not stop the
\* import.
C2_ShortReadAbortsOnlyThatFile ==
    (exc = "struct.error" /\ fileIdx + 1 < nfiles) => pc /= "raised"

\* C3: when the normalized name of the lump being parsed is already in the
\* registry, no texture is created, the registered one keeps its image, the
\* container tag of the file is added to it, and the import goes on with the
\* next lump, for every combination of the options.
C3_DuplicateSuppressed ==
    [][(ParseStep /\ Dispatch(lump', file, palette).kind
                         \in {"indexed", "loose"}
                  /\ NameIn(lump', file) \in DOMAIN materials) =>
           LET nm == NameIn(lump', file)
           IN  /\ pc' = "lumps"
               /\ exc' = "none"
               /\ DOMAIN materials' = DOMAIN materials
               /\ materials'[nm].img = materials[nm].img
               /\ materials'[nm].emit = materials[nm].emit
               /\ materials'[nm].tags =
                      Append(materials[nm].tags, file.cont_name)
               /\ anim_seqs' = anim_seqs
      ]_vars

\* the sequence key of a frame name: the second character replaced by '0'
\* when it is a decimal digit and by 'a' otherwise, the rest unchanged
KeyOf(nm) ==
    <<nm[1], IF nm[2] \in 48..57 THEN 48 ELSE 97>> \o SubSeq(nm, 3, Len(nm))

\* the names of a list of images, in the list's order
Names(ims) == [i \in 1..Len(ims) |-> ims[i].name]

\* C4: every stashed frame is under the sequence key of its name ("+1x" and
\* "+2x" under "+0x"); when the import is over, the group of a key whose
\* base texture exists starts with the base texture and holds after it every
\* frame stashed under the key, ascending by name whatever the order the
\* lumps were decoded in; under a "+0" key the whole list is ascending.
C4_SequenceGrouping ==
    /\ \A k \in DOMAIN anim_seqs :
           \A i \in 1..Len(anim_seqs[k]) : KeyOf(anim_seqs[k][i].name) = k
    /\ (pc = "done" /\ option_seq) =>
           /\ DOMAIN groups = DOMAIN anim_seqs \cap DOMAIN materials
           /\ \A k \in DOMAIN groups :
                  LET fr == groups[k].frames
                  IN  /\ Len(fr) = Len(anim_seqs[k]) + 1
                      /\ fr[1] = materials[k].img
                      /\ fr[1].name = k
                      /\ {fr[i] : i \in 2..Len(fr)} =
                             {anim_seqs[k][i] : i \in 1..Len(anim_seqs[k])}
                      /\ \A i, j \in 2..Len(fr) :
                             i < j => StrLess(fr[i].name, fr[j].name)
                      /\ k[2] = 48 =>
                             \A i, j \in 1..Len(fr) :
                                 i < j => StrLess(fr[i].name, fr[j].name)

\* "+2X" was decoded before "+1x", both are stashed under "+0x", and the
\* group of "+0x" is "+0x", "+1x", "+2x"
C4_Witness ==
    /\ pc = "done"
    /\ <<43, 48, 120>> \in DOMAIN groups
    /\ Names(anim_seqs[<<43, 48, 120>>]) = <<<<43, 50, 120>>, <<43, 49, 120>>>>
    /\ Names(groups[<<43, 48, 120>>].frames) =
           <<<<43, 48, 120>>, <<43, 49, 120>>, <<43, 50, 120>>>>

\* the lump e named nm has a pixel that goes to the emission buffer
Glows(e, nm) ==
    \E i \in 1..Len(e.data) :
        e.data[i] >= 224 /\ ~SkyOrLiquid(nm) /\ ~Masked(nm, e.data[i])

\* C5: a frame that reaches the stash is appended to the member list of its
\* key and, when it has an emission buffer, its emission image is appended to
\* the key's emission list as well, whatever frames were stashed before it.
C5_EmissionStashedInParallel ==
    (JustParsed /\ lump.type = TypeMiptex
                /\ (last = "stashed" \/ exc = "KeyError")) =>
        LET nm == NameIn(lump, file)
            k  == KeyOf(nm)
            ek == k \o emit_suffix
        IN  /\ pc = "lumps"
            /\ k \in DOMAIN anim_seqs
            /\ anim_seqs[k][Len(anim_seqs[k])].name = nm
            /\ Glows(lump, nm) =>
                   /\ ek \in DOMAIN anim_seqs
                   /\ anim_seqs[ek][Len(anim_seqs[ek])].name =
                          nm \o emit_suffix

\* C6: the resolution of a decoded lump ends in a duplicate skip, a frame
\* discard, a frame stash or a material, whatever the normalized name, and
\* never in an error that stops the import.
C6_ResolverHasNoFailureMode ==
    /\ exc \notin {"IndexError", "AttributeError", "KeyError"}
    /\ (JustParsed /\ last /= "unrecognized" /\ exc /= "struct.error") =>
           /\ pc = "lumps"
           /\ last \in {"duplicate", "frame_discard", "frame_skip",
                        "loose_emit_skip", "stashed", "material"}

-----------------------------------------------------------------------------
(* More properties of the pixel conversion, checked under SpecLump.        *)

\* the pixel v of a texture nm is fullbright and not a transparent index
GlowPixel(nm, v) == v >= 224 /\ ~SkyOrLiquid(nm) /\ ~Masked(nm, v)

\* the quadruple the color buffer holds for the pixel v of a texture nm
ColorOf(nm, v) ==
    IF GlowPixel(nm, v) /\ option_luma THEN <<0, 0, 0, FloatScale>>
    ELSE <<palette[3 * v + 1], palette[3 * v + 2], palette[3 * v + 3],
           IF Masked(nm, v) THEN 0 ELSE FloatScale>>

\* the quadruple an emission buffer holds for the pixel v of a texture nm
EmissionOf(nm, v) ==
    IF GlowPixel(nm, v) THEN PaletteQuad(palette, v)
    ELSE <<0, 0, 0, FloatScale>>

\* C17: the pixel stored at row r from the top and column c of a lump of
\* width W and height H is written at position (H-1-r)*W + c of the color
\* buffer, and at the same position of the emission buffer when there is
\* one; the columns keep their order.
C17_RowFlip ==
    BuffersLive =>
        \A r \in 0..(size[2] - 1) : \A c \in 0..(size[1] - 1) :
            LET v == pixels[r * size[1] + c + 1]
                p == (size[2] - 1 - r) * size[1] + c
            IN  /\ Stored => Len(pix_rgba) >= 4 * (p + 1)
                /\ Len(pix_rgba) >= 4 * (p + 1) =>
                       /\ Quad(pix_rgba, p) = ColorOf(name, v)
                       /\ pix_emit /= <<>> =>
                              /\ Len(pix_emit) >= 4 * (p + 1)
                              /\ Quad(pix_emit, p) = EmissionOf(name, v)

\* a 2x2 lump of four different indices is stored: its top-left pixel is
\* the third of the output, its bottom-right pixel the second
C17_Witness ==
    /\ Stored
    /\ name = <<109, 101, 116, 97, 108, 49>>
    /\ ~option_luma
    /\ size = <<2, 2>>
    /\ pixels = <<0, 223, 224, 255>>
    /\ Quad(pix_rgba, 2) = PaletteQuad(pal_float, 0)
    /\ Quad(pix_rgba, 1) = PaletteQuad(pal_float, 255)
    /\ Quad(pix_emit, 0) = PaletteQuad(pal_float, 224)
    /\ Quad(pix_emit, 3) = <<0, 0, 0, FloatScale>>

\* C18: an emission buffer exists exactly when a converted pixel is
\* fullbright and not a transparent index; it is then as long as the color
\* buffer, and holds (0,0,0,1) at every position whose pixel is ordinary or
\* transparent, before the first glowing pixel and after it, also when the
\* first glowing pixel is the first one converted.
C18_LazyEmission ==
    BuffersLive =>
        LET done == Len(pix_rgba) \div 4
        IN  /\ pix_emit /= <<>> <=>
                   \E p \in 0..(done - 1) :
                       GlowPixel(name, SourceIndex(size, pixels, p))
            /\ pix_emit /= <<>> =>
                   /\ Len(pix_emit) = Len(pix_rgba)
                   /\ \A p \in 0..(done - 1) :
                          ~GlowPixel(name, SourceIndex(size, pixels, p)) =>
                              Quad(pix_emit, p) = <<0, 0, 0, FloatScale>>
            /\ Stored =>
                   /\ done = size[1] * size[2]
                   /\ \A k \in DOMAIN materials :
                          materials[k].emit =
                              IF pix_emit = <<>> THEN NoImage
                              ELSE NewImage(EName(k), size, pix_emit)

\* "{fence" of 1x4 pixels is stored: a transparent and an ordinary pixel are
\* converted before its first glowing pixel, an ordinary one after it
C18_Witness ==
    /\ Stored
    /\ name = <<123, 102, 101, 110, 99, 101>>
    /\ size = <<1, 4>>
    /\ pixels = <<0, 224, 223, 255>>
    /\ pix_emit = <<0, 0, 0, 255, 0, 0, 0, 255>>
                      \o PaletteQuad(pal_float, 224) \o <<0, 0, 0, 255>>

\* the first pixel converted glows: the emission buffer starts with it
C18_WitnessFirst ==
    /\ Stored
    /\ size = <<1, 2>>
    /\ pixels = <<0, 224>>
    /\ pix_emit = PaletteQuad(pal_float, 224) \o <<0, 0, 0, 255>>

\* C19: a texture whose normalized name starts with "sky" or "*" has no
\* emission buffer, and each of its pixels, those of index 224..255
\* included, has the palette's color with alpha 1 in the color buffer,
\* with cut-out-luma enabled or disabled.
C19_SkyLiquidExempt ==
    (BuffersLive /\ SkyOrLiquid(name)) =>
        /\ pix_emit = <<>>
        /\ \A p \in 0..(Len(pix_rgba) \div 4 - 1) :
               Quad(pix_rgba, p) =
                   PaletteQuad(palette, SourceIndex(size, pixels, p))
        /\ Stored =>
               /\ Len(pix_rgba) = size[1] * size[2] * 4
               /\ materials[name].emit = NoImage

\* "*water" with pixels of index 224 and 255 is stored with cut-out-luma
\* enabled
C19_Witness ==
    /\ Stored
    /\ option_luma
    /\ name = <<42, 119, 97, 116, 101, 114>>
    /\ size = <<2, 1>>
    /\ pixels = <<224, 255>>
    /\ pix_rgba = PaletteQuad(pal_float, 224) \o PaletteQuad(pal_float, 255)
    /\ pix_emit = <<>>

-----------------------------------------------------------------------------
(* More properties of the import, checked under Spec.                      *)

\* the textures made so far: the materials and the stashed frames, each
\* counted with its emission image as one
TextureCount ==
    Cardinality(DOMAIN materials)
        + Cardinality({ki \in UNION {{<<k, i>> : i \in 1..Len(anim_seqs[k])} :
                                        k \in DOMAIN anim_seqs} :
                          ~EndsWith(ki[1], emit_suffix)})

\* what TextureCount is after the step
TextureCountNext ==
    Cardinality(DOMAIN materials')
        + Cardinality({ki \in UNION {{<<k, i>> : i \in 1..Len(anim_seqs'[k])} :
                                        k \in DOMAIN anim_seqs'} :
                          ~EndsWith(ki[1], emit_suffix)})

\* C11: each directory entry yields at most one texture, a material or a
\* stashed frame, and nothing else yields one; a file is read for no more
\* entries than its directory counts, so the textures made from a file are
\* at most its entry count.
C11_AtMostOneTexturePerEntry ==
    [][/\ TextureCountNext <= TextureCount + (IF ParseStep THEN 1 ELSE 0)
       /\ TextureCountNext >= TextureCount
       /\ ParseStep => entryIdx' <= file.numentries
      ]_vars

\* a WAD2 of three entries is read to its end and gave a material and a
\* stashed frame: the third entry was a duplicate or gave nothing
C11_Witness ==
    /\ pc = "lumps"
    /\ file.format = "WAD2"
    /\ file.numentries = 3
    /\ entryIdx = 3
    /\ fileIdx = 0
    /\ Cardinality(DOMAIN materials) = 1
    /\ TextureCount = 2

\* C12: a lump of an archive whose type is none of 'D', 'B', '@' and whose
\* declared name is neither "CONCHARS" nor "CONBACK" gives a warning and no
\* texture: the registry, the containers and the sequence map stay as they
\* are, and the import goes on with the next lump.
C12_UnrecognizedLump ==
    [][(ParseStep /\ ~file.loose_texture
                  /\ lump'.type \notin {TypeMiptex, TypeStatusBar, TypePalette}
                  /\ SplitNul(lump'.dname) \notin {CONCHARS, CONBACK}) =>
           /\ reports' = Append(reports, <<"Unrecognized lump",
                                           SplitNul(lump'.dname)>>)
           /\ materials' = materials
           /\ objects' = objects
           /\ anim_seqs' = anim_seqs
           /\ pc' = "lumps"
           /\ exc' = "none"
      ]_vars

\* "junk" was warned about between two lumps that gave a texture each
C12_Witness ==
    /\ pc = "lumps"
    /\ entryIdx = 3
    /\ reports = <<<<"Unrecognized lump", <<106, 117, 110, 107>>>>>>
    /\ last = "material"
    /\ Cardinality(DOMAIN materials) = 2

\* the step opens the next file of the batch
OpenStep == pc = "files" /\ fileIdx < nfiles

\* C14: a file that is neither WAD2 nor BSP and loads as an image of depth
\* zero is skipped with a warning: no texture, no container, the registry
\* and the sequence map unchanged, and the batch goes on with the next
\* file; with a depth that is not zero the file has exactly one entry, the
\* pseudo entry, and that entry ends the file.
C14_ZeroDepthSkipped ==
    [][/\ (OpenStep /\ file'.format = "image") =>
              IF file'.depth = 0
              THEN /\ reports' = Append(reports, <<"Skipped", file'.name>>)
                   /\ materials' = materials
                   /\ objects' = objects
                   /\ anim_seqs' = anim_seqs
                   /\ pc' = "files"
                   /\ exc' = "none"
                   /\ fileIdx' = fileIdx + 1
              ELSE /\ pc' = "lumps"
                   /\ file'.loose_texture
                   /\ file'.numentries = 1
                   /\ EntriesOf(file') = {LooseEntry}
                   /\ entryIdx' = 0
                   /\ reports' = reports
       /\ (ParseStep /\ file.loose_texture) =>
              /\ lump' = LooseEntry
              /\ entryIdx' = file.numentries
      ]_vars

\* 'a.tga' was skipped and the next file of the batch gave a material
C14_Witness ==
    /\ reports = <<<<"Skipped", FileName(0, "image")>>>>
    /\ fileIdx = 1
    /\ pc = "lumps"
    /\ last = "material"
    /\ DOMAIN objects \subseteq {file.cont_name}
    /\ Cardinality(DOMAIN materials) = 1

\* the frame name nm is stashed under its sequence key in seqs
StashedIn(seqs, nm) ==
    /\ Len(nm) >= 2
    /\ nm[1] = 43
    /\ nm[2] \notin {48, 97}
    /\ KeyOf(nm) \in DOMAIN seqs
    /\ \E i \in 1..Len(seqs[KeyOf(nm)]) : seqs[KeyOf(nm)][i].name = nm

KindOf(sig) ==
    IF sig = <<87, 65, 68, 50>> THEN "WAD2"
    ELSE IF sig = <<66, 83, 80, 50>> \/ sig = <<29, 0, 0, 0>> THEN "BSP"
    ELSE "image"

\* C16: the first 4 bytes alone decide the kind of a file, one kind for
\* every file.  "WAD2" gives the records of the WAD2 directory, as many as
\* its entry count; "BSP2" or the little-endian 29 gives for each relative
\* offset of the texture directory an entry at that offset plus header
\* field 4, of type 'D' and with an empty declared name, read as the
\* miptexture that lies there; any other signature gives the image path
\* and its one pseudo entry.
C16_KindBySignature ==
    [][/\ OpenStep =>
              /\ file'.format = KindOf(file'.sig)
              /\ file'.format \in {"WAD2", "BSP", "image"}
              /\ pc' = "lumps" =>
                     /\ file'.loose_texture <=> file'.format = "image"
                     /\ entryIdx' = 0
       /\ ParseStep =>
              /\ entryIdx' <= file.numentries
              /\ file.format = "WAD2" =>
                     \E i \in 1..(Len(MipBodies) + 2) :
                         /\ lump'.offset = OffsetOfLump(i)
                         /\ lump' \in WadLumps
              /\ file.format = "BSP" =>
                     /\ lump'.type = <<68>>
                     /\ lump'.dname = <<>>
                     /\ \E rel \in BspRelOffsets :
                            /\ lump'.offset = rel + BspHeader[5]
                            /\ \E i \in 1..Len(MipBodies) :
                                   /\ lump'.offset = OffsetOfLump(i)
                                   /\ lump'.hname = MipBodies[i].hname
                                   /\ lump'.data = MipBodies[i].data
                                   /\ <<lump'.w, lump'.h>> =
                                          <<MipBodies[i].w, MipBodies[i].h>>
              /\ file.format = "image" => lump' = LooseEntry
      ]_vars

\* a file that starts with the little-endian 29 was read as a BSP: the
\* miptexture "wall1" behind its second relative offset became a material
C16_Witness ==
    /\ pc = "lumps"
    /\ file.sig = <<29, 0, 0, 0>>
    /\ file.format = "BSP"
    /\ last = "material"
    /\ BspHeader[5] > 0
    /\ lump.offset = OffsetOfLump(2)
    /\ lump.dname = <<>>
    /\ DOMAIN materials = {<<119, 97, 108, 108, 49>>}

-----------------------------------------------------------------------------
(* The dispatch on name and type: SpecDispatch.  One entry of a WAD2 is    *)
(* decoded and resolved, lines 148-220, for declared names and types in    *)
(* every combination and for index buffers as long as the console          *)
(* pictures.                                                               *)

\* n bytes that differ from their neighbours, all ordinary indices
Bytes(n) == [i \in 1..n |-> i % FullbrightFrom]

\* declared names: "CONCHARS", "CONBACK", "CONCHARS" with bytes after its
\* NUL, "conchars", "PIC"
DeclaredNames ==
    { CONCHARS, CONBACK, CONCHARS \o <<0, 120>>,
      <<99, 111, 110, 99, 104, 97, 114, 115>>, <<80, 73, 67>> }

\* the entries SpecDispatch reads: each declared name with each type, over
\* 2, 128*128 and 320*200 bytes; a miptexture header there would name the
\* lump "HDR" and give it 1x2 pixels, a status bar header 1x2 pixels
DispatchInputs ==
    { Entry(t, dn, <<72, 68, 82>>, 1, 2, Bytes(n)) :
        t \in {TypeMiptex, TypeStatusBar, TypePalette, TypeOther},
        dn \in DeclaredNames,
        n \in {2, 128 * 128, 320 * 200} }

InitDispatch ==
    /\ option_assets = TRUE
    /\ option_cont = TRUE
    /\ option_luma = FALSE
    /\ option_seq = TRUE
    /\ nfiles = 1
    /\ fileIdx = 0
    /\ file = LumpFile
    /\ entryIdx = 0
    /\ nparsed = 1
    /\ pc = "lumps"
    /\ exc = "none"
    /\ last = "opened"
    /\ materials = EmptyMap
    /\ objects = Put(EmptyMap, LumpFile.cont_name, <<>>)
    /\ anim_seqs = EmptyMap
    /\ groups = EmptyMap
    /\ reports = <<>>
    /\ lump \in DispatchInputs
    /\ name = <<>>
    /\ seq_name = <<>>
    /\ palette = pal_float
    /\ size = <<0, 0>>
    /\ pixels = <<>>
    /\ row = -1
    /\ clm = 0
    /\ pix_rgba = <<>>
    /\ pix_emit = <<>>

NextDispatch == ReadLump

SpecDispatch == InitDispatch /\ [][NextDispatch]_vars

\* the first n bytes of data, fewer when data is shorter
FirstBytes(data, n) ==
    [i \in 1..(IF Len(data) < n THEN Len(data) ELSE n) |-> data[i]]

\* C13: the declared name is matched before the type: a lump named
\* "CONCHARS" is read as 128x128 indices without a header and one named
\* "CONBACK" as 320x200 indices without a header, whatever its type; only
\* a lump of another name is read by its type: 'D' by its miptexture
\* header, 'B' by its size header, '@' as a palette, any other not at all.
C13_NameBeforeType ==
    last /= "opened" =>
        LET dn == SplitNul(lump.dname)
        IN  IF dn = <<67, 79, 78, 67, 72, 65, 82, 83>>
            THEN /\ pc = "pixels"
                 /\ name = <<99, 111, 110, 99, 104, 97, 114, 115>>
                 /\ size = <<128, 128>>
                 /\ pixels = FirstBytes(lump.data, 128 * 128)
                 /\ palette = pal_float
            ELSE IF dn = <<67, 79, 78, 66, 65, 67, 75>>
            THEN /\ pc = "pixels"
                 /\ name = <<99, 111, 110, 98, 97, 99, 107>>
                 /\ size = <<320, 200>>
                 /\ pixels = FirstBytes(lump.data, 320 * 200)
                 /\ palette = pal_float
            ELSE IF lump.type = <<68>>
            THEN /\ pc = "pixels"
                 /\ name = Lower(lump.hname)
                 /\ size = <<lump.w, lump.h>>
                 /\ pixels = FirstBytes(lump.data, lump.w * lump.h)
            ELSE IF lump.type = <<66>>
            THEN /\ pc = "pixels"
                 /\ name = Lower(dn)
                 /\ size = <<lump.w, lump.h>>
                 /\ pixels = FirstBytes(lump.data, lump.w * lump.h)
            ELSE IF lump.type = <<64>>
            THEN IF Len(lump.data) >= 768
                 THEN /\ pc = "pixels"
                      /\ name = Lower(dn)
                      /\ size = <<16, 16>>
                      /\ pixels = [i \in 1..256 |-> i - 1]
                      /\ palette = FirstBytes(lump.data, 768)
                 ELSE pc = "raised" /\ exc = "struct.error"
            ELSE /\ last = "unrecognized"
                 /\ pc = "lumps"
                 /\ materials = EmptyMap

\* a lump of an unknown type that is named "CONCHARS" is read as 128x128
\* indices
C13_Witness ==
    /\ pc = "pixels"
    /\ lump.type = TypeOther
    /\ lump.dname = CONCHARS
    /\ Len(lump.data) = 16384
    /\ size = <<128, 128>>
    /\ Len(pixels) = 16384
    /\ pixels[16384] = 16384 % 224
-----------------------------------------------------------------------------
(* Several invocations of the operator in one Blender session: SpecRuns.   *)
(* Every invocation is a call of execute (line 81) and has its own locals; *)
(* bpy.data (materials, images, objects) belongs to the session.  The      *)
(* options are left at their defaults (lines 59-66) and every invocation   *)
(* is given one file.                                                      *)

\* line 85: anim_seqs of a new invocation
NewSeqs_kept(seqs) == seqs

NewSeqs(seqs) == EmptyMap

InitRuns ==
    /\ Init
    /\ nfiles = 1
    /\ option_assets
    /\ option_cont
    /\ option_seq

\* lines 81-94: the operator is invoked again after an import has finished;
\* nparsed bounds the lumps read in the whole session
Execute ==
    /\ pc = "done"
    /\ nparsed < MaxEntries
    /\ nfiles' = 1
    /\ fileIdx' = 0
    /\ file' = NoFile
    /\ entryIdx' = 0
    /\ pc' = "files"
    /\ last' = "invoked"
    /\ anim_seqs' = NewSeqs(anim_seqs)
    /\ reports' = <<>>
    /\ lump' = NoEntry
    /\ name' = <<>>
    /\ seq_name' = <<>>
    /\ palette' = pal_float
    /\ size' = <<0, 0>>
    /\ pixels' = <<>>
    /\ row' = -1
    /\ clm' = 0
    /\ pix_rgba' = <<>>
    /\ pix_emit' = <<>>
    /\ UNCHANGED <<options, nparsed, exc, materials, objects, groups>>

NextRuns == OpenFile \/ ParseTexture \/ EndFile \/ Finish \/ Execute

SpecRuns == InitRuns /\ [][NextRuns]_vars

\* the step starts a new invocation
InvokeStep == pc = "done" /\ pc' = "files"

\* C15 (amended): only the sequence map is scoped to one invocation: every
\* invocation starts with an empty sequence map, while the registry of
\* texture names is the session's material collection, which a new
\* invocation finds as the earlier ones left it; a lump whose name an
\* earlier invocation registered is therefore a duplicate, tagged and not
\* decoded again.
C15_SequenceMapPerInvocation ==
    [][/\ InvokeStep =>
              /\ anim_seqs' = EmptyMap
              /\ materials' = materials
              /\ objects' = objects
              /\ groups' = groups
       /\ (ParseStep /\ Dispatch(lump', file, palette).kind
                            \in {"indexed", "loose"}
                     /\ NameIn(lump', file) \in DOMAIN materials) =>
              /\ last' = "duplicate"
              /\ anim_seqs' = anim_seqs
              /\ DOMAIN materials' = DOMAIN materials
              /\ \A k \in DOMAIN materials :
                     materials'[k].img = materials[k].img
      ]_vars

\* the WAD2 "a.wad" with the one lump "wall1" is imported a second time: the
\* sequence map is empty, and the lump, the first of this invocation, is a
\* duplicate of the material the first invocation registered
C15_Witness ==
    /\ last = "duplicate"
    /\ pc = "lumps"
    /\ file.name = FileName(0, "WAD2")
    /\ file.numentries = 1
    /\ entryIdx = 1
    /\ anim_seqs = EmptyMap
    /\ DOMAIN materials = {<<119, 97, 108, 108, 49>>}
    /\ materials[<<119, 97, 108, 108, 49>>].tags =
           <<FileName(0, "WAD2"), FileName(0, "WAD2")>>

\* C15: the registry and the sequence map are both scoped to one invocation:
\* every invocation starts with both of them empty.
C15_RegistryAndSequenceMapPerInvocation ==
    last = "invoked" => (materials = EmptyMap /\ anim_seqs = EmptyMap)

-----------------------------------------------------------------------------
(* Order of finalization, checked under Spec.                              *)

\* the frame pattern: '+' followed by a character other than '0' and 'a'
FramePattern(nm) == Len(nm) >= 2 /\ nm[1] = 43 /\ nm[2] \notin {48, 97}

Members(ims) == {ims[i] : i \in 1..Len(ims)}

\* C22: when the import is over, every group belongs to a key that names a
\* material of the registry; the frames stashed under a key that names none
\* are in no group, their key has no group, and the import ended without an
\* error.  (The emission list of a group's own key is that group's.)
C22_GroupOnlyWithBaseTexture ==
    pc = "done" =>
        /\ exc = "none"
        /\ \A g \in DOMAIN groups :
               g \in DOMAIN materials /\ g \in DOMAIN anim_seqs
        /\ \A k \in DOMAIN anim_seqs \ DOMAIN materials :
               /\ k \notin DOMAIN groups
               /\ \A g \in DOMAIN groups :
                      /\ Members(anim_seqs[k]) \cap Members(groups[g].frames)
                             = {}
                      /\ k /= g \o emit_suffix =>
                             Members(anim_seqs[k]) \cap
                                 Members(groups[g].emits) = {}

\* "+1x" was attached to the material "+0x", while "+bx", stashed under
\* "+ax", has no base texture and is in no group
C22_Witness ==
    /\ pc = "done"
    /\ option_seq
    /\ DOMAIN groups = {<<43, 48, 120>>}
    /\ DOMAIN anim_seqs = {<<43, 48, 120>>, <<43, 97, 120>>}
    /\ <<43, 97, 120>> \notin DOMAIN materials
    /\ Names(anim_seqs[<<43, 97, 120>>]) = <<<<43, 98, 120>>>>
    /\ Names(groups[<<43, 48, 120>>].frames) =
           <<<<43, 48, 120>>, <<43, 49, 120>>>>

-----------------------------------------------------------------------------
(* The lists of the sequence map: SpecFrames.                              *)
(* One WAD2 file of MaxEntries entries, all of them frames of the sequence *)
(* "+0x" or lumps named like their emission images, at the default         *)
(* options but for "Cut out luma", which is either way.                    *)

\* the lumps of the file: header name, 1x1 index buffer
FrameBodies ==
    << Entry(TypeMiptex, <<43, 48, 120>>, <<43, 48, 120>>, 1, 1, <<0>>),
                                                               \* "+0x"
       Entry(TypeMiptex, <<43, 49, 120>>, <<43, 49, 120>>, 1, 1, <<0>>),
                                                               \* "+1x"
       Entry(TypeMiptex, <<43, 50, 88>>, <<43, 50, 88>>, 1, 1, <<230>>),
                                                               \* "+2X", glows
       Entry(TypeMiptex, <<43, 49, 120>> \o emit_suffix,
             <<43, 49, 120>> \o emit_suffix, 1, 1, <<1>>) >>   \* "+1x_luma"

FrameLumps ==
    {AtOffset(FrameBodies[i], OffsetOfLump(i)) : i \in 1..Len(FrameBodies)}

InitFrames ==
    /\ option_assets = TRUE
    /\ option_cont = TRUE
    /\ option_luma \in BOOLEAN
    /\ option_seq = TRUE
    /\ nfiles = 1
    /\ fileIdx = 0
    /\ file = [LumpFile EXCEPT !.numentries = MaxEntries]
    /\ entryIdx = 0
    /\ nparsed = MaxEntries
    /\ pc = "lumps"
    /\ exc = "none"
    /\ last = "opened"
    /\ materials = EmptyMap
    /\ objects = Put(EmptyMap, LumpFile.cont_name, <<>>)
    /\ anim_seqs = EmptyMap
    /\ groups = EmptyMap
    /\ reports = <<>>
    /\ lump = NoEntry
    /\ name = <<>>
    /\ seq_name = <<>>
    /\ palette = pal_float
    /\ size = <<0, 0>>
    /\ pixels = <<>>
    /\ row = -1
    /\ clm = 0
    /\ pix_rgba = <<>>
    /\ pix_emit = <<>>

\* lines 147-367: the next entry of the file is parsed
ParseFrame ==
    /\ pc = "lumps"
    /\ entryIdx < file.numentries
    /\ \E e \in FrameLumps :
        \E p \in {Parsed(e, file, palette, materials, objects, anim_seqs,
                        reports)} :
            /\ lump' = e
            /\ palette' = p.palette
            /\ materials' = p.materials
            /\ objects' = p.objects
            /\ anim_seqs' = p.anim_seqs
            /\ reports' = p.reports
            /\ last' = p.outcome
            /\ exc' = p.exc
            /\ pc' = IF p.exc = "none" THEN "lumps" ELSE "raised"
    /\ entryIdx' = entryIdx + 1
    /\ UNCHANGED <<options, nfiles, fileIdx, file, nparsed, groups,
                   name, seq_name, size, pixels, row, clm, pix_rgba,
                   pix_emit>>

NextFrames == ParseFrame \/ EndFile \/ Finish

SpecFrames == InitFrames /\ [][NextFrames]_vars

\* the quadruples an emission buffer can hold (lines 245-254): black, or the
\* color of a fullbright index
GlowQuads ==
    {Black} \cup
    {PaletteQuad(pal_float, v) : v \in FullbrightFrom..TransparentIndex}

\* im can be the image of an emission buffer
EmissionImage(im) ==
    \A p \in 0..(im.size[1] * im.size[2] - 1) : Quad(im.pixels, p) \in GlowQuads

\* C24: the list under a sequence key holds only color images of frames whose
\* computed key is that key, and the list under the key + the emission
\* suffix holds only emission images, each the emission image of a frame of
\* the key's list, whatever lumps were read, a frame named "+1x_luma"
\* included.
C24_ListsNeverMix ==
    \A k \in DOMAIN anim_seqs :
        /\ \A im \in Members(anim_seqs[k]) :
               FramePattern(im.name) /\ KeyOf(im.name) = k
        /\ (k \o emit_suffix) \in DOMAIN anim_seqs =>
               \A em \in Members(anim_seqs[k \o emit_suffix]) :
                   /\ EmissionImage(em)
                   /\ \E im \in Members(anim_seqs[k]) :
                          em.name = im.name \o emit_suffix

\* "+2X" glows and was stashed with its emission image; "+1x_luma", read
\* after it, was appended to the emission list of "+0x"
C24_Mixed ==
    /\ pc = "lumps"
    /\ last = "stashed"
    /\ DOMAIN anim_seqs = {<<43, 48, 120>>, <<43, 48, 120>> \o emit_suffix}
    /\ Names(anim_seqs[<<43, 48, 120>>]) = <<<<43, 50, 120>>>>
    /\ Names(anim_seqs[<<43, 48, 120>> \o emit_suffix]) =
           <<<<43, 50, 120>> \o emit_suffix, <<43, 49, 120>> \o emit_suffix>>
    /\ ~EmissionImage(anim_seqs[<<43, 48, 120>> \o emit_suffix][2])

====
